---- MODULE Spec2Model ----
(***************************************************************************)
(* Model of the vocabulary quiz script src/app.py.                         *)
(*                                                                         *)
(* The script is executed from top to bottom on every user interaction (a  *)
(* "pass").  The session state (st.session_state) survives from one pass   *)
(* to the next.  One action of the model is one interaction, a button      *)
(* click or a widget change, with the pass it causes and, when that pass   *)
(* ends in st.rerun(), the pass that follows.                              *)
(*                                                                         *)
(* A pass need not reach the end of the script.  The user can interact     *)
(* while a pass is under way, at any moment and in particular during the   *)
(* time.sleep(auto_delay) of the Submit and Skip handlers (lines 445, 448, *)
(* 461).  Streamlit then ends the pass at the next st.* call it makes,     *)
(* keeps what the pass has written to the session state, and starts the    *)
(* pass of the new interaction; a pass asked for with st.rerun() is        *)
(* replaced by the pass of an interaction that is pending.  The session    *)
(* state changes only in the pass under way, so the states of the model    *)
(* are those between two passes, and an action has one outcome for every   *)
(* st.* call at which its pass can end ("cut") with a different session    *)
(* state or a different page; the interaction that cut it is the next      *)
(* action.                                                                 *)
(*                                                                         *)
(* Row indices are 0-based as in the source; the sequences of the model    *)
(* are 1-based, so row i of a table t is t[i + 1].                         *)
(***************************************************************************)
EXTENDS Integers, Sequences, FiniteSets, TLC

(***************************************************************************)
(* Bounds of the model.                                                    *)
(***************************************************************************)
\* The number of submissions in a behaviour.
MaxSubmits == 2

\* The number of changes of the setting in a behaviour: switches of the
\* question mode, the practice mode or the category, uploads of a progress
\* file, replacements and removals of the vocabulary file, exam starts, and
\* clearings of the wrong book.
MaxChanges == 1

(***************************************************************************)
(* The vocabulary files the user can upload (the input datasets): two      *)
(* workbooks with the sheets A and B, the second with the tables of the    *)
(* first under the other sheet name.  Every row is {word, definition,      *)
(* example}; the loaders turn the example column into strings.  Table CatB *)
(* is smaller than CatA and holds a (word, definition) pair of CatA under  *)
(* another example.                                                        *)
(***************************************************************************)
Row(w, d, e) == [word |-> w, definition |-> d, example |-> e]

CatA == << Row("w1", "d1", "e1"), Row("w2", "d2", "e2") >>

CatB == << Row("w2", "d2", "x2") >>

VocabFiles == << [A |-> CatA, B |-> CatB], [A |-> CatB, B |-> CatA] >>

\* The vocabulary uploader is empty.
NoFile == 0

\* Line 254: the sheet names, the same in both files.
cat_names == << "A", "B" >>

NoCat == "None"

QuizModes == {"DefToWord", "WordToDef", "Spelling"}

PracticeModes == {"Normal", "Review"}

\* The slider "exam_len" ranges over 5..50 in steps of 5.
ExamLenMin == 5

ExamLenStep == 5

ExamLens == {ExamLenMin, ExamLenMin + ExamLenStep}

\* schedule_spaced_repetition's default delay.
SRDelay == 3

\* pick_options' default k.
OptionsK == 4

(***************************************************************************)
(* Generic helpers.                                                        *)
(***************************************************************************)
Min(a, b) == IF a <= b THEN a ELSE b

Max(a, b) == IF a >= b THEN a ELSE b

Range(s) == {s[i] : i \in 1..Len(s)}

\* list(range(n))
RangeList(n) == [i \in 1..n |-> i - 1]

\* The injective sequences of length k over the set S.
RECURSIVE Arrangements(_, _)
Arrangements(S, k) ==
    IF k = 0 THEN {<< >>}
    ELSE UNION {{<<x>> \o t : t \in Arrangements(S \ {x}, k - 1)} : x \in S}

\* The orderings of the positions 1..n, for the lists of up to OptionsK items.
Orderings == [n \in 0..OptionsK |-> Arrangements(1..n, n)]

\* The outcomes of random.shuffle on a list: all its orderings.
Shuffles(s) ==
    {[i \in 1..Len(s) |-> s[p[i]]] :
        p \in IF Len(s) \in DOMAIN Orderings THEN Orderings[Len(s)]
              ELSE Arrangements(1..Len(s), Len(s))}

(***************************************************************************)
(* Option Selector: pick_options(n_total, correct_idx, k).                 *)
(* random.sample and random.shuffle make the result a random choice; the   *)
(* operator yields the set of lists the call can return.                   *)
(***************************************************************************)
\* The wrong options are sampled from all the indices, the correct one included.
pick_options_any(n_total, correct_idx, k) ==
    IF n_total <= 1 THEN {<<correct_idx>>}
    ELSE UNION {Shuffles(<<correct_idx>> \o wrong) :
                  wrong \in Arrangements(0..(n_total - 1), Min(k, n_total) - 1)}

pick_options(n_total, correct_idx, k) ==
    IF n_total <= 1 THEN {<<correct_idx>>}
    ELSE LET kk == Min(k, n_total)
             all_idx == (0..(n_total - 1)) \ {correct_idx}
             \* wrong = random.sample(all_idx, k - 1)
             samples == Arrangements(all_idx, kk - 1)
         IN  UNION {Shuffles(<<correct_idx>> \o wrong) : wrong \in samples}

(***************************************************************************)
(* Mastery Ledger.  The mastery map is a Python dict: it keeps its keys in *)
(* insertion order, so it is a sequence of records, one per word.          *)
(***************************************************************************)
MasteryWords(mastery) == {mastery[i].word : i \in 1..Len(mastery)}

\* mastery[word], for a word of the map
MasteryRec(mastery, word) ==
    mastery[CHOOSE i \in 1..Len(mastery) : mastery[i].word = word]

\* A wrong answer is counted as seen but not as wrong.
update_mastery_miscount(mastery, word, correct) ==
    LET m0 == IF word \in MasteryWords(mastery) THEN mastery
              ELSE Append(mastery, [word |-> word, seen |-> 0, correct |-> 0, wrong |-> 0])
    IN  [i \in 1..Len(m0) |->
            IF m0[i].word # word THEN m0[i]
            ELSE [word    |-> word,
                  seen    |-> m0[i].seen + 1,
                  correct |-> IF correct THEN m0[i].correct + 1 ELSE m0[i].correct,
                  wrong   |-> m0[i].wrong]]

update_mastery(mastery, word, correct) ==
    LET \* setdefault(word, {"seen": 0, "correct": 0, "wrong": 0})
        m0 == IF word \in MasteryWords(mastery) THEN mastery
              ELSE Append(mastery, [word |-> word, seen |-> 0, correct |-> 0, wrong |-> 0])
    IN  [i \in 1..Len(m0) |->
            IF m0[i].word # word THEN m0[i]
            ELSE [word    |-> word,
                  seen    |-> m0[i].seen + 1,
                  correct |-> IF correct THEN m0[i].correct + 1 ELSE m0[i].correct,
                  wrong   |-> IF correct THEN m0[i].wrong ELSE m0[i].wrong + 1]]

\* The entry is appended without looking for the pair.
add_to_wrong_book_always(wrong_book, word, definition, example) ==
    Append(wrong_book, Row(word, definition, example))

add_to_wrong_book(wrong_book, word, definition, example) ==
    IF \E i \in 1..Len(wrong_book) :
          wrong_book[i].word = word /\ wrong_book[i].definition = definition
    THEN wrong_book
    ELSE Append(wrong_book, Row(word, definition, example))

\* The oldest entry is dropped, whatever its pair.
remove_oldest(wrong_book, word, definition) ==
    IF wrong_book = << >> THEN << >> ELSE Tail(wrong_book)

remove_from_wrong_book(wrong_book, word, definition) ==
    LET Keep(rec) == ~(rec.word = word /\ rec.definition = definition)
    IN  SelectSeq(wrong_book, Keep)

(***************************************************************************)
(* Spaced-Repetition Queue: a list of {idx, due}.                          *)
(***************************************************************************)
NoIdx == -1

\* The item is queued one selection short of the delay.
schedule_short(sr_queue, idx, delay) ==
    Append(sr_queue, [idx |-> idx, due |-> delay - 1])

schedule_spaced_repetition(sr_queue, idx, delay) ==
    Append(sr_queue, [idx |-> idx, due |-> delay])

\* Lines 187-188: every item is one selection closer to its return.
Tick(sr_queue) ==
    [i \in 1..Len(sr_queue) |->
        [idx |-> sr_queue[i].idx, due |-> Max(0, sr_queue[i].due - 1)]]

\* Line 194: the queue without the items that are due and point at `chosen`.
RemoveChosen(ticked, chosen) ==
    LET Keep(item) == ~(item.due = 0 /\ item.idx = chosen)
    IN  [queue |-> SelectSeq(ticked, Keep), chosen |-> chosen]

\* Lines 189-196, on the ticked queue.
PickDue(ticked) ==
    LET IsDue(item) == item.due = 0
        due_items == SelectSeq(ticked, IsDue)
    IN  IF due_items # << >>
        THEN RemoveChosen(ticked, due_items[1].idx)
        ELSE [queue |-> ticked, chosen |-> NoIdx]

\* The due item is picked before the queue is ticked.
sr_pick_then_tick(sr_queue) ==
    [queue |-> Tick(PickDue(sr_queue).queue), chosen |-> PickDue(sr_queue).chosen]

\* Returns the queue after the call and the index returned (NoIdx for None).
sr_tick_and_pick(sr_queue) == PickDue(Tick(sr_queue))

(***************************************************************************)
(* Text Normalizer.  A string is a sequence of one-character strings over  *)
(* the characters below; the maps give what unicodedata / str.lower / the  *)
(* regular expression of normalize_token do to each of them.               *)
(***************************************************************************)
\* NFKD decomposition with the combining marks dropped.
StripAccentChar(c) == IF c = "é" THEN "e" ELSE c

LowerChar(c) ==
    IF c = "A" THEN "a" ELSE IF c = "B" THEN "b" ELSE IF c = "C" THEN "c" ELSE c

\* [\s\-‐‑–—’']
IsRemovedChar(c) == c \in {" ", "-", "'"}

strip_accents(str) == [i \in 1..Len(str) |-> StripAccentChar(str[i])]

normalize_token(str) ==
    LET low == [i \in 1..Len(str) |-> LowerChar(strip_accents(str)[i])]
        Kept(c) == ~IsRemovedChar(c)
    IN  SelectSeq(low, Kept)

\* str.strip() == ""
IsBlank(str) == \A i \in 1..Len(str) : str[i] = " "

\* difflib.SequenceMatcher(None, a, b), line 131, keeps autojunk at its
\* default: when b has 200 characters or more, every character that occurs in
\* it more than len(b) // 100 + 1 times is "popular" and is left out of the
\* index b2j that find_longest_match looks blocks up in.
Popular(b) ==
    IF Len(b) < 200 THEN {}
    ELSE {x \in Range(b) :
            Cardinality({j \in 1..Len(b) : b[j] = x}) > Len(b) \div 100 + 1}

\* The length of the longest common run of a[i..ahi] and b[j..bhi] that starts
\* at (i, j) and holds no character of pop.
BlockLen(a, b, pop, i, j, ahi, bhi) ==
    LET lens == {k \in 0..Min(ahi - i + 1, bhi - j + 1) :
                    \A d \in 0..(k - 1) : a[i + d] = b[j + d] /\ b[j + d] \notin pop}
    IN  CHOOSE k \in lens : \A m \in lens : m <= k

\* The number of equal characters just before (i, j), down to (alo, blo).
ExtendBack(a, b, i, j, alo, blo) ==
    LET lens == {k \in 0..Min(i - alo, j - blo) :
                    \A d \in 1..k : a[i - d] = b[j - d]}
    IN  CHOOSE k \in lens : \A m \in lens : m <= k

\* The block m = <<i, j, size>> found through the index, extended on both
\* sides over the characters that are equal, popular or not.
Extended(a, b, m, alo, ahi, blo, bhi) ==
    << m[1] - ExtendBack(a, b, m[1], m[2], alo, blo),
       m[2] - ExtendBack(a, b, m[1], m[2], alo, blo),
       m[3] + ExtendBack(a, b, m[1], m[2], alo, blo)
            + BlockLen(a, b, {}, m[1] + m[3], m[2] + m[3], ahi, bhi) >>

\* The longest block of characters of the index: the one that starts
\* earliest in a and, among those, earliest in b; <<alo, blo, 0>> when there
\* is none.
IndexedMatch(a, b, pop, alo, ahi, blo, bhi) ==
    LET cands == {<<i, j, BlockLen(a, b, pop, i, j, ahi, bhi)>> :
                     i \in alo..ahi, j \in blo..bhi}
        Better(c, d) == \/ c[3] > d[3]
                        \/ c[3] = d[3] /\ c[1] < d[1]
                        \/ c[3] = d[3] /\ c[1] = d[1] /\ c[2] <= d[2]
    IN  IF cands = {} THEN <<alo, blo, 0>>
        ELSE CHOOSE c \in cands : \A d \in cands : Better(c, d)

\* difflib.SequenceMatcher.find_longest_match on a[alo:ahi], b[blo:bhi]
\* (1-based, inclusive bounds).  Gives <<i, j, size>>.
find_longest_match(a, b, alo, ahi, blo, bhi) ==
    Extended(a, b, IndexedMatch(a, b, Popular(b), alo, ahi, blo, bhi),
             alo, ahi, blo, bhi)

\* The total size of SequenceMatcher.get_matching_blocks().
RECURSIVE MatchingSize(_, _, _, _, _, _)
MatchingSize(a, b, alo, ahi, blo, bhi) ==
    LET m == find_longest_match(a, b, alo, ahi, blo, bhi)
    IN  IF m[3] = 0 THEN 0
        ELSE m[3] + MatchingSize(a, b, alo, m[1] - 1, blo, m[2] - 1)
                  + MatchingSize(a, b, m[1] + m[3], ahi, m[2] + m[3], bhi)

\* similarity_pct(a, b) >= threshold_pct, in integers: ratio() is 2*M/T, and 1.0
\* when both strings are empty.
SimilarityAtLeast(a, b, threshold_pct) ==
    LET a_n == normalize_token(a)
        b_n == normalize_token(b)
        total == Len(a_n) + Len(b_n)
        matches == MatchingSize(a_n, b_n, 1, Len(a_n), 1, Len(b_n))
    IN  IF total = 0 THEN 100 >= threshold_pct
        ELSE 200 * matches >= threshold_pct * total

spelling_verdict(user, target, threshold_pct) ==
    IF normalize_token(user) = normalize_token(target) THEN "exact"
    ELSE IF SimilarityAtLeast(user, target, threshold_pct) THEN "near"
    ELSE "wrong"

\* The characters of the words of the vocabulary.
Spell(word) ==
    IF word = "w1" THEN <<"c", "a", "f", "é">>
    ELSE <<"a", "b", "c", "-", "a", "b", "c">>

\* What the user may type in spelling mode.
TypedInputs ==
    { <<"C", "a", "f", "e">>,                 \* w1 up to case and accent
      <<"c", "a", "f">>,                      \* close to w1
      <<"a", "b", "c", " ", "a", "b", "c">>,  \* w2 with a space for the hyphen
      <<"a", "b", "c", "a", "b">> }           \* close to w2

\* The slider "near_threshold" ranges over 70..95.
NearThresholdMin == 70

NearThresholdMax == 95

NearThresholdDefault == 85

NearThresholds == {NearThresholdMin, NearThresholdDefault, NearThresholdMax}

(***************************************************************************)
(* Progress snapshot: json.dumps / json.loads.                             *)
(* A JSON document is a tree of tagged values; "invalid" is a text that    *)
(* json.loads rejects.                                                     *)
(***************************************************************************)
JNum(n) == [t |-> "number", n |-> n]

JStr(str) == [t |-> "string", s |-> str]

JArr(items) == [t |-> "array", items |-> items]

JMember(k, v) == [key |-> k, val |-> v]

JObj(members) == [t |-> "object", members |-> members]

JInvalid == [t |-> "invalid"]

HasKey(obj, k) == \E i \in 1..Len(obj.members) : obj.members[i].key = k

\* obj[k]: json.loads keeps the last member of a repeated key.
Get(obj, k) ==
    LET last == CHOOSE i \in 1..Len(obj.members) :
                    /\ obj.members[i].key = k
                    /\ \A j \in (i + 1)..Len(obj.members) : obj.members[j].key # k
    IN  obj.members[last].val

\* json.dumps({"mastery": mastery, "wrong_book": wrong_book}), lines 485-489.
DumpMastery(mastery) ==
    JObj([i \in 1..Len(mastery) |->
            JMember(mastery[i].word,
                    JObj(<< JMember("seen", JNum(mastery[i].seen)),
                            JMember("correct", JNum(mastery[i].correct)),
                            JMember("wrong", JNum(mastery[i].wrong)) >>))])

DumpWrongBook(wrong_book) ==
    JArr([i \in 1..Len(wrong_book) |->
            JObj(<< JMember("word", JStr(wrong_book[i].word)),
                    JMember("definition", JStr(wrong_book[i].definition)),
                    JMember("example", JStr(wrong_book[i].example)) >>)])

ExportJson(mastery, wrong_book) ==
    JObj(<< JMember("mastery", DumpMastery(mastery)),
            JMember("wrong_book", DumpWrongBook(wrong_book)) >>)

\* The Python dict a JSON object of mastery records loads as: a repeated key
\* keeps its first position and its last value.
LoadMastery(obj) ==
    LET m == obj.members
        First(i) == \A j \in 1..(i - 1) : m[j].key # m[i].key
        firsts == SelectSeq([i \in 1..Len(m) |-> i], First)
    IN  [n \in 1..Len(firsts) |->
            LET rec == Get(obj, m[firsts[n]].key)
            IN  [word    |-> m[firsts[n]].key,
                 seen    |-> Get(rec, "seen").n,
                 correct |-> Get(rec, "correct").n,
                 wrong   |-> Get(rec, "wrong").n]]

\* The example sentences are not read back.
LoadWrongBook_no_example(arr) ==
    [i \in 1..Len(arr.items) |->
        Row(Get(arr.items[i], "word").s, Get(arr.items[i], "definition").s, "")]

LoadWrongBook(arr) ==
    [i \in 1..Len(arr.items) |->
        Row(Get(arr.items[i], "word").s,
            Get(arr.items[i], "definition").s,
            Get(arr.items[i], "example").s)]

\* Lines 507-516: the new (mastery, wrong_book) when the uploader holds `doc`.
ImportJson(doc, mastery, wrong_book) ==
    IF doc.t # "object"
    THEN \* json.loads raises, a TypeError on "in" or on loaded[...] is caught,
         \* or neither key is found: nothing is assigned
         [mastery |-> mastery, wrong_book |-> wrong_book]
    ELSE [mastery    |-> IF HasKey(doc, "mastery") /\ Get(doc, "mastery").t = "object"
                         THEN LoadMastery(Get(doc, "mastery")) ELSE mastery,
          wrong_book |-> IF HasKey(doc, "wrong_book") /\ Get(doc, "wrong_book").t = "array"
                         THEN LoadWrongBook(Get(doc, "wrong_book")) ELSE wrong_book]

\* The progress files the user holds: a snapshot exported by an earlier
\* session, and a file whose "wrong_book" is not a list.
FileSnapshot ==
    ExportJson(<< [word |-> "w1", seen |-> 2, correct |-> 1, wrong |-> 1],
                  [word |-> "w2", seen |-> 1, correct |-> 0, wrong |-> 1] >>,
               << Row("w1", "d1", "e1"), Row("w2", "d2", "e2") >>)

FileBadWrongBook ==
    JObj(<< JMember("mastery",
                    DumpMastery(<<[word |-> "w2", seen |-> 1, correct |-> 1, wrong |-> 0]>>)),
            JMember("wrong_book", JStr("none")) >>)

ProgressFiles == << FileSnapshot, FileBadWrongBook >>

(***************************************************************************)
(* Mastery export (CSV), lines 493-504.  A text of digits is a sequence of *)
(* digits; str comparison is the lexicographic order of the sequences.     *)
(***************************************************************************)
\* Line 499 computes acc in binary floating point (IEEE 754 doubles, 53
\* significant bits, round to nearest, ties to even): first correct / seen,
\* then the product by 100.  The operators below find on which side of the
\* exact value 100 * correct / seen the computed acc lies; the integers
\* involved stay below 2^31 for counts up to 10^7.

\* correct / seen scaled by a power of 2 into [1, 2): <<c, s>>, s <= c < 2 * s.
RECURSIVE Normalized(_, _)
Normalized(c, s) ==
    IF c < s THEN Normalized(2 * c, s)
    ELSE IF c >= 2 * s THEN Normalized(c, 2 * s)
    ELSE << c, s >>

\* One step of the binary long division by s: the next bit of the quotient
\* and the remainder after it.
NextBit(r, s) == [r |-> (2 * r) % s, bit |-> (2 * r) \div s]

\* The remainder and the last bit after the k bits that follow the leading
\* bit of the quotient; r is the remainder after the leading bit.
RECURSIVE DivBits(_, _, _)
DivBits(r, s, k) ==
    IF k = 0 THEN [r |-> r, bit |-> 1] ELSE NextBit(DivBits(r, s, k - 1).r, s)

\* The quotient c / s of a normalized pair rounded to 53 bits: whether it is
\* rounded up, and the size of the rounding error in units of 1 / s of the
\* last bit.
RoundedQuotient(d, s) ==
    IF 2 * d.r > s \/ (2 * d.r = s /\ d.bit = 1)
    THEN [up |-> TRUE, err |-> s - d.r]
    ELSE [up |-> FALSE, err |-> d.r]

\* The side of the exact value x = 100 * c / s, a number n + 1/2, on which
\* the computed acc lies: 1 above, -1 below, 0 when acc is x.  The error of
\* the quotient, multiplied by 100, moves the product off x when it exceeds
\* half of the last bit of x, which is 32 last bits of the quotient when
\* x is below 128 times the power of 2 of the quotient and 64 otherwise.
FloatSideOf(q, c, s) ==
    IF 25 * c < 32 * s /\ 100 * q.err > 32 * s
    THEN IF q.up THEN 1 ELSE -1
    ELSE 0

FloatSide(c, s) == FloatSideOf(RoundedQuotient(DivBits(c - s, s, 52), s), c, s)

\* f"{acc:.0f}" rounds the computed acc to the nearest integer, a tie to the
\* even one.  acc is within a last bit of the exact value q + r / seen, so it
\* rounds as the exact value does unless that is the tie q + 1/2.
RoundTie(q, side) ==
    IF side > 0 THEN q + 1
    ELSE IF side < 0 THEN q
    ELSE IF q % 2 = 0 THEN q ELSE q + 1

\* Lines 499-500: the integer that f"{acc:.0f}" writes; acc is 0 when seen is
\* not above 0.
AccRounded(seen, correct) ==
    IF seen <= 0 THEN 0
    ELSE LET q == (100 * correct) \div seen
             r == (100 * correct) % seen
         IN  IF 2 * r > seen THEN q + 1
             ELSE IF 2 * r < seen THEN q
             ELSE RoundTie(q, FloatSide(Normalized(correct, seen)[1],
                                        Normalized(correct, seen)[2]))

\* The decimal digits of n.
RECURSIVE Digits(_)
Digits(n) == IF n < 10 THEN << n >> ELSE Append(Digits(n \div 10), n % 10)

\* f"{acc:.0f}": the decimal digits of the rounded accuracy.
FormatAcc(seen, correct) == Digits(AccRounded(seen, correct))

\* a < b for two texts of digits (Python str comparison).
StrLess(a, b) ==
    \E i \in 1..(Len(b)) :
        /\ \A j \in 1..(i - 1) : j <= Len(a) /\ a[j] = b[j]
        /\ i > Len(a) \/ (i <= Len(a) /\ a[i] < b[i])

\* Lines 494-500: one row per mastery record, in the order of the map.
CsvRows(mastery) ==
    [i \in 1..Len(mastery) |->
        [word |-> mastery[i].word, seen |-> mastery[i].seen,
         correct |-> mastery[i].correct, wrong |-> mastery[i].wrong,
         accuracy |-> FormatAcc(mastery[i].seen, mastery[i].correct)]]

\* Row i comes before row j in sort_values(by=["accuracy_%", "seen"],
\* ascending=[False, False]): the greater accuracy text first, then the
\* greater seen count, then the earlier row (the sort is stable).
SortsBefore(rows, i, j) ==
    \/ StrLess(rows[j].accuracy, rows[i].accuracy)
    \/ /\ rows[i].accuracy = rows[j].accuracy
       /\ \/ rows[i].seen > rows[j].seen
          \/ rows[i].seen = rows[j].seen /\ i < j

\* Line 501.
sort_values(rows) ==
    LET Pos(i) == 1 + Cardinality({j \in 1..Len(rows) : SortsBefore(rows, j, i)})
    IN  [k \in 1..Len(rows) |-> rows[CHOOSE i \in 1..Len(rows) : Pos(i) = k]]

\* Lines 493-504: the rows of mastery.csv; ok = FALSE when sort_values raises
\* KeyError, the frame of an empty map having no column.
ExportCsv(mastery) ==
    IF mastery = << >> THEN [ok |-> FALSE, rows |-> << >>]
    ELSE [ok |-> TRUE, rows |-> sort_values(CsvRows(mastery))]

(***************************************************************************)
(* Quiz Session: next_question(state).                                     *)
(* `state` is the session-state record.  The operator yields the set of    *)
(* outcomes [state, ok]: ok = FALSE when the call raises (data.loc on a    *)
(* row label the table does not have, or pop from an empty list); `state`  *)
(* is then the session state as the exception leaves it.                   *)
(***************************************************************************)
\* The joint shuffle of (options_idx, options_text), lines 236-240.
JointShuffle(options_idx, options_text) ==
    LET pair == [i \in 1..Len(options_idx) |-> <<options_idx[i], options_text[i]>>]
    IN  {[options_idx  |-> [i \in 1..Len(sh) |-> sh[i][1]],
          options_text |-> [i \in 1..Len(sh) |-> sh[i][2]]] : sh \in Shuffles(pair)}

\* Lines 212-243, once q_idx is chosen.
BuildQuestion(state, q_idx, shuffle_flag) ==
    LET Text(i) == IF state.mode = "DefToWord"
                   THEN state.data[i + 1].word ELSE state.data[i + 1].definition
        picked == {[options_idx  |-> o,
                    options_text |-> [j \in 1..Len(o) |-> Text(o[j])]] :
                      o \in pick_options(Len(state.data), q_idx, OptionsK)}
    IN  IF q_idx \notin 0..(Len(state.data) - 1)
        THEN {[state |-> [state EXCEPT !.current_idx = q_idx], ok |-> FALSE]}
        ELSE IF state.mode = "Spelling"
        THEN {[state |-> [state EXCEPT !.current_idx = q_idx,
                                       !.is_spelling = TRUE,
                                       !.options_idx = << >>,
                                       !.options_text = << >>,
                                       !.await_next = FALSE],
               ok |-> TRUE]}
        ELSE {[state |-> [state EXCEPT !.current_idx = q_idx,
                                       !.is_spelling = FALSE,
                                       !.options_idx = p.options_idx,
                                       !.options_text = p.options_text,
                                       !.await_next = FALSE],
               ok |-> TRUE] :
                p \in UNION {IF shuffle_flag
                             THEN JointShuffle(o.options_idx, o.options_text)
                             ELSE {o} : o \in picked}}

\* The drawn index stays in the pool.
PoolDraw_no_pop(state, shuffle_flag) ==
    LET refills == IF state.indices_left = << >>
                   THEN Shuffles(RangeList(Len(state.data)))
                   ELSE {state.indices_left}
    IN  UNION {IF left = << >>
               THEN {[state |-> state, ok |-> FALSE]}
               ELSE BuildQuestion([state EXCEPT !.indices_left = left],
                                  left[Len(left)], shuffle_flag) : left \in refills}

\* Lines 204-210: the draw from the pool, refilled when it is empty.
PoolDraw(state, shuffle_flag) ==
    LET refills == IF state.indices_left = << >>
                   THEN Shuffles(RangeList(Len(state.data)))
                   ELSE {state.indices_left}
    IN  UNION {IF left = << >>
               THEN {[state |-> state, ok |-> FALSE]}
               ELSE BuildQuestion(
                        [state EXCEPT !.indices_left = SubSeq(left, 1, Len(left) - 1)],
                        left[Len(left)], shuffle_flag) : left \in refills}

\* Lines 199-210, sr being the result of sr_tick_and_pick.
SelectQuestion(state, sr, shuffle_flag) ==
    IF sr.chosen # NoIdx
    THEN BuildQuestion([state EXCEPT !.sr_queue = sr.queue], sr.chosen, shuffle_flag)
    ELSE PoolDraw([state EXCEPT !.sr_queue = sr.queue], shuffle_flag)

next_question(state, shuffle_flag) ==
    SelectQuestion(state, sr_tick_and_pick(state.sr_queue), shuffle_flag)

(***************************************************************************)
(* One pass of the script, top to bottom.                                  *)
(*                                                                         *)
(* w is the record of the widget values of the run:                        *)
(*   quiz_mode, mode_choice, sel_cat (the category selectbox), auto (the   *)
(*   auto-advance delay is > 0), exam_len, shuffle, enable_fuzzy,          *)
(*   near_threshold, count_near, choice (the radio, a 0-based position, or *)
(*   NoIdx), typed (the text input), uploaded (<< >> or <<document>>).     *)
(* b is the button whose click caused the run ("none" for a widget         *)
(* change and for the re-run after st.rerun()).                            *)
(*                                                                         *)
(* A pass is a chain of stages over a context c:                           *)
(*   c.s        the session state                                          *)
(*   c.ctl      "run", or how the pass ended early: "stop" (st.stop()),    *)
(*              "rerun" (st.rerun()), "crash" (an uncaught exception),     *)
(*              "cut" (at a st.* call, another interaction being pending)  *)
(*   c.op       the button handler that was executed, "none" if none       *)
(*   c.reinit   the round initialisation of lines 275-287 was executed     *)
(*   c.nq       the number of calls of next_question                       *)
(*   c.graded   "right" / "wrong" when a submission was graded             *)
(*   c.feedback the feedback the pass leaves on the page: "exact" (the      *)
(*              success box), "near" (the "Almost!" box), "wrong" (the      *)
(*              error box), or "none"                                       *)
(*   c.ev       what the pass did to the question, in order: "reinit" (the *)
(*              round initialisation), "start" (an exam was started),      *)
(*              "sel" (next_question selected the target idx), "crash"     *)
(*              (next_question raised with current_idx = idx), "show" (the *)
(*              page displayed the question of the target idx, lines       *)
(*              321-350, an exam being active or not), "right" / "wrong"   *)
(*              (the answer to the target idx was graded and recorded),    *)
(*              "reset" (the Reset round handler emptied the round)        *)
(* Random draws make a stage yield a set of contexts.                      *)
(***************************************************************************)
NewCtx(s) ==
    [s |-> s, ctl |-> "run", op |-> "none", reinit |-> FALSE, nq |-> 0,
     graded |-> "none", feedback |-> "none", ev |-> << >>]

Event(k, idx, exam) == [k |-> k, idx |-> idx, exam |-> exam]

\* The pass ends at the st.* call it has reached: another interaction is
\* pending.  The session state stays as the pass has made it so far.
Cut(c) == [c EXCEPT !.ctl = "cut"]

ZeroStats == [xp |-> 0, correct |-> 0, total |-> 0, streak |-> 0]

\* A call of next_question inside a pass.
CallNextQuestion(c, w) ==
    {[c EXCEPT !.s = r.state, !.nq = c.nq + 1,
               !.ctl = IF r.ok THEN c.ctl ELSE "crash",
               !.ev = Append(@, Event(IF r.ok THEN "sel" ELSE "crash",
                                      r.state.current_idx, FALSE))] :
        r \in next_question(c.s, w.shuffle)}

\* Lines 254-259.
SelectedCat(w) == IF w.mode_choice = "Normal" THEN w.sel_cat ELSE NoCat

\* Line 246: the categories of the vocabulary file of the run.
categories(w) == VocabFiles[w.uploaded_vocab]

\* Lines 261-268: df_base.  pd.DataFrame(wrong_book) has one row per entry.
DfBase(s, w) ==
    IF w.mode_choice = "Normal" THEN categories(w)[w.sel_cat] ELSE s.wrong_book

\* Lines 55-57.
StageClear(c, b) ==
    IF b = "clear" THEN [c EXCEPT !.s.wrong_book = << >>] ELSE c

\* Lines 246-250: with no vocabulary file the pass stops before
\* ensure_session() and the page.
StageVocab(c, w) ==
    IF w.uploaded_vocab = NoFile THEN [c EXCEPT !.ctl = "stop"] ELSE c

\* Lines 261-272.
StageData(c, w) ==
    IF c.ctl # "run" THEN c
    ELSE IF w.mode_choice # "Normal" /\ Len(c.s.wrong_book) = 0
    THEN [c EXCEPT !.ctl = "stop"]
    ELSE IF Len(DfBase(c.s, w)) < 1 THEN [c EXCEPT !.ctl = "stop"]
    ELSE c

\* Lines 274-287.
StageInit(c, w) ==
    IF c.ctl # "run" THEN {c}
    ELSE IF \/ c.s.mode # w.quiz_mode
            \/ c.s.cat # SelectedCat(w)
            \/ c.s.practice_mode # w.mode_choice
    THEN UNION {CallNextQuestion(
                    [c EXCEPT !.reinit = TRUE,
                              !.ev = Append(@, Event("reinit", NoIdx, FALSE)),
                              !.s.mode = w.quiz_mode,
                              !.s.cat = SelectedCat(w),
                              !.s.practice_mode = w.mode_choice,
                              !.s.data = DfBase(c.s, w),
                              !.s.indices_left = indices,
                              !.s.stats = ZeroStats], w) :
                  indices \in Shuffles(RangeList(Len(DfBase(c.s, w))))}
    ELSE {c}

\* Lines 289-298.
StageExam(c, w, b) ==
    IF c.ctl # "run" \/ b # "exam" THEN {c}
    ELSE UNION {CallNextQuestion(
                    [c EXCEPT !.op = "exam",
                              !.ev = Append(@, Event("start", NoIdx, TRUE)),
                              !.s.exam_active = TRUE,
                              !.s.exam_remaining = Min(w.exam_len, Len(c.s.data)),
                              !.s.exam_correct = 0,
                              !.s.indices_left = indices], w) :
                  indices \in Shuffles(RangeList(Len(c.s.data)))}

\* finish_or_next(), lines 356-367.  On the last question of an exam the
\* pass can be cut at st.success (line 363), between the write of exam_active
\* and the write of await_next.
finish_or_next(c, w) ==
    LET c1 == IF c.s.exam_active
              THEN [c EXCEPT !.s.exam_remaining = c.s.exam_remaining - 1] ELSE c
    IN  IF c.s.exam_active /\ c1.s.exam_remaining <= 0
        THEN {[c1 EXCEPT !.s.exam_active = FALSE, !.s.await_next = TRUE],
              Cut([c1 EXCEPT !.s.exam_active = FALSE])}
        ELSE {IF n.ctl = "run" THEN [n EXCEPT !.ctl = "rerun"] ELSE n :
                n \in CallNextQuestion(c1, w)}

\* A near answer that does not count is reported as a plain miss.
GradeOfVerdict_plain_miss(verdict, count_near) ==
    IF verdict = "exact"
    THEN [is_correct |-> TRUE, feedback_mode |-> "exact"]
    ELSE IF verdict = "near" /\ count_near
    THEN [is_correct |-> TRUE, feedback_mode |-> "near"]
    ELSE [is_correct |-> FALSE, feedback_mode |-> "wrong"]

\* Lines 391-400: the grade of a spelling verdict.
GradeOfVerdict(verdict, count_near) ==
    IF verdict = "exact"
    THEN [is_correct |-> TRUE, feedback_mode |-> "exact"]
    ELSE IF verdict = "near"
    THEN [is_correct |-> count_near, feedback_mode |-> "near"]
    ELSE [is_correct |-> FALSE, feedback_mode |-> "wrong"]

\* Lines 385-409: is_correct and feedback_mode of the answer in w.
Grade(s, w) ==
    LET word_corr == s.data[s.current_idx + 1].word
    IN  IF s.is_spelling
        THEN IF w.enable_fuzzy
             THEN GradeOfVerdict(
                      spelling_verdict(w.typed, Spell(word_corr), w.near_threshold),
                      w.count_near)
             ELSE LET same == normalize_token(w.typed) = normalize_token(Spell(word_corr))
                  IN  [is_correct |-> same,
                       feedback_mode |-> IF same THEN "exact" ELSE "wrong"]
        ELSE LET picked_idx == s.options_idx[w.choice + 1]
                 same == picked_idx = s.current_idx
             IN  [is_correct |-> same, feedback_mode |-> IF same THEN "exact" ELSE "wrong"]

\* Lines 424-441: the records of a graded answer.
RecordAnswer(s, w, is_correct) ==
    LET correct_idx == s.current_idx
        row == s.data[correct_idx + 1]
    IN  [s EXCEPT
           !.mastery = update_mastery(@, row.word, is_correct),
           !.stats.xp = IF is_correct THEN @ + 1 ELSE @,
           !.stats.correct = IF is_correct THEN @ + 1 ELSE @,
           !.stats.streak = IF is_correct THEN @ + 1 ELSE 0,
           !.wrong_book =
               IF is_correct
               THEN IF w.mode_choice = "Review"
                    THEN remove_from_wrong_book(@, row.word, row.definition)
                    ELSE @
               ELSE IF w.mode_choice = "Normal"
                    THEN add_to_wrong_book(@, row.word, row.definition, row.example)
                    ELSE @,
           !.sr_queue = IF is_correct THEN @
                        ELSE schedule_spaced_repetition(@, correct_idx, SRDelay),
           !.exam_correct = IF s.exam_active /\ is_correct THEN @ + 1 ELSE @]

\* Lines 378-441: the session state when the Submit handler reaches line 443,
\* or, with ok = FALSE, when data.loc raises at line 381.
Graded(s, w, g) ==
    [state |-> RecordAnswer(s, w, g.is_correct), ok |-> TRUE,
     is_correct |-> g.is_correct, feedback_mode |-> g.feedback_mode]

SubmitEffect(s, w) ==
    LET s1 == [s EXCEPT !.stats.total = s.stats.total + 1]
    IN  IF s.current_idx \notin 0..(Len(s.data) - 1)
        THEN [state |-> s1, ok |-> FALSE, is_correct |-> FALSE, feedback_mode |-> "wrong"]
        ELSE Graded(s1, w, Grade(s1, w))

\* The Submit button is enabled (line 377).
SubmitEnabled(s, w) ==
    IF s.is_spelling THEN ~IsBlank(w.typed)
    ELSE w.choice \in 0..(Len(s.options_text) - 1)

\* Lines 443-451, after the effect e of lines 378-441: wait for Next, or
\* sleep for the delay and go on with finish_or_next.  The sleep writes
\* nothing; an interaction that arrives during it cuts the pass at the next
\* st.* call, which is in finish_or_next (line 363) or is st.rerun().
SubmitAdvance(c, w, e) ==
    LET c1 == [c EXCEPT !.op = "submit", !.s = e.state]
    IN  IF ~e.ok THEN {[c1 EXCEPT !.ctl = "crash"]}
        ELSE LET grade == IF e.is_correct THEN "right" ELSE "wrong"
                 c2 == [c1 EXCEPT !.graded = grade,
                                  !.feedback = e.feedback_mode,
                                  !.ev = Append(@, Event(grade, c.s.current_idx, FALSE))]
             IN  IF w.auto THEN finish_or_next(c2, w)
                 ELSE {[c2 EXCEPT !.s.await_next = TRUE]}

\* Lines 376-451 for the effect e of lines 378-441.  The feedback box (lines
\* 412-422) is a st.* call between the write of stats.total (line 378) and
\* the records of lines 425-441: a pass cut there has counted the submission
\* and recorded nothing.
SubmitOutcomes(c, w, e) ==
    SubmitAdvance(c, w, e)
      \cup (IF e.ok
            THEN {Cut([c EXCEPT !.op = "submit", !.s.stats.total = @ + 1])}
            ELSE {})

\* Lines 376-451: the Submit handler.
OnSubmit(c, w) == SubmitOutcomes(c, w, SubmitEffect(c.s, w))

\* Lines 369-374: the Next handler.
OnNext(c, w) ==
    {IF n.ctl = "run" THEN [n EXCEPT !.ctl = "rerun"] ELSE n :
       n \in CallNextQuestion([c EXCEPT !.op = "next", !.s.await_next = FALSE], w)}

\* A skip is counted as a question asked.
OnSkip_counted(c, w) ==
    LET c1 == [c EXCEPT !.op = "skip", !.s.stats.streak = 0,
                        !.s.stats.total = c.s.stats.total + 1]
    IN  {Cut(c)}
          \cup (IF w.auto /\ ~c1.s.exam_active
                THEN {IF n.ctl = "run" THEN [n EXCEPT !.ctl = "rerun"] ELSE n :
                        n \in CallNextQuestion(c1, w)}
                ELSE {[c1 EXCEPT !.s.await_next = TRUE]})

\* Lines 457-465: the Skip handler.  A pass cut at st.info (line 458) has
\* written nothing.  After the write of the streak the handler sleeps for the
\* delay (line 461) and makes no st.* call before st.rerun().
OnSkip(c, w) ==
    LET c1 == [c EXCEPT !.op = "skip", !.s.stats.streak = 0]
    IN  {Cut(c)}
          \cup (IF w.auto /\ ~c1.s.exam_active
                THEN {IF n.ctl = "run" THEN [n EXCEPT !.ctl = "rerun"] ELSE n :
                        n \in CallNextQuestion(c1, w)}
                ELSE {[c1 EXCEPT !.s.await_next = TRUE]})

\* The SR queue is kept over the reset.
OnReset_keep_queue(c, w) ==
    LET table == IF w.mode_choice = "Normal" THEN categories(w)[SelectedCat(w)]
                 ELSE c.s.wrong_book
    IN  UNION {{IF n.ctl = "run" THEN [n EXCEPT !.ctl = "rerun"] ELSE n :
                  n \in CallNextQuestion(
                           [c EXCEPT !.op = "reset",
                                     !.ev = Append(@, Event("reset", NoIdx, FALSE)),
                                     !.s.data = table,
                                     !.s.indices_left = idx,
                                     !.s.stats = ZeroStats], w)} :
                 idx \in Shuffles(RangeList(Len(table)))}

\* Lines 468-478: the Reset round handler.
OnReset(c, w) ==
    LET table == IF w.mode_choice = "Normal" THEN categories(w)[SelectedCat(w)]
                 ELSE c.s.wrong_book
    IN  UNION {{IF n.ctl = "run" THEN [n EXCEPT !.ctl = "rerun"] ELSE n :
                  n \in CallNextQuestion(
                           [c EXCEPT !.op = "reset",
                                     !.ev = Append(@, Event("reset", NoIdx, FALSE)),
                                     !.s.data = table,
                                     !.s.indices_left = idx,
                                     !.s.stats = ZeroStats,
                                     !.s.sr_queue = << >>], w)} :
                 idx \in Shuffles(RangeList(Len(table)))}

\* Lines 352-478: the three button columns.  await_next is read once, at
\* line 354; a click on a button that this pass does not create is lost.
Handlers(c, w, b) ==
    LET await_next == c.s.await_next
    IN  IF b = "next" /\ await_next THEN OnNext(c, w)
        ELSE IF b = "submit" /\ ~await_next /\ SubmitEnabled(c.s, w) THEN OnSubmit(c, w)
        ELSE IF b = "skip" /\ ~await_next THEN OnSkip(c, w)
        ELSE IF b = "reset" THEN OnReset(c, w)
        ELSE {c}

\* Lines 300-350: the page with the question in its state.  The page writes
\* nothing to the session state.
Displayed(c) ==
    [c EXCEPT !.ev = Append(@, Event("show", c.s.current_idx, c.s.exam_active))]

\* Lines 300-478: the page and the buttons.  The pass can be cut at a st.*
\* call of the page before it displays the question (lines 301-320), and
\* after that at a st.* call of the page or at a button, before the handler
\* of the button runs.
StageButtons(c, w, b) ==
    IF c.ctl # "run" THEN {c}
    ELSE {Cut(c), Cut(Displayed(c))} \cup Handlers(Displayed(c), w, b)

\* Lines 482-516: export and import.  The exports (the buttons "export_json"
\* and "export_csv") only display a download and leave the session state
\* alone; the CSV export of an empty mastery map raises.
StageExportImport(c, w, b) ==
    IF c.ctl # "run" THEN c
    ELSE IF b = "export_csv" /\ ~ExportCsv(c.s.mastery).ok THEN [c EXCEPT !.ctl = "crash"]
    ELSE IF w.uploaded = << >> THEN c
    ELSE LET r == ImportJson(w.uploaded[1], c.s.mastery, c.s.wrong_book)
         IN  [c EXCEPT !.s.mastery = r.mastery, !.s.wrong_book = r.wrong_book]

\* Lines 453-516 after the handler of the first column: the pass can be cut
\* at a st.* call of the other columns or of the exports, before the import
\* writes, and at the st.success of the import (line 514), after its writes.
StageTail(c, w, b) ==
    IF c.ctl # "run" THEN {c}
    ELSE LET e == StageExportImport(c, w, b)
         IN  {Cut(c), e}
               \cup (IF e.ctl = "run" /\ w.uploaded # << >> THEN {Cut(e)} ELSE {})

\* One pass of the script.  It can be cut at the st.* calls of the sidebar
\* (lines 11-54), having written nothing, at st.success (line 57), and at the
\* st.* calls of lines 246-272, which follow no other write; lines 274-298
\* make no st.* call.
ScriptPass(s, w, b) ==
    LET c0 == StageData(StageVocab(StageClear(NewCtx(s), b), w), w)
        c1 == StageInit(c0, w)
        c2 == UNION {StageExam(c, w, b) : c \in c1}
        c3 == UNION {StageButtons(c, w, b) : c \in c2}
    IN  {Cut(NewCtx(s)), Cut(StageClear(NewCtx(s), b))}
          \cup UNION {StageTail(c, w, b) : c \in c3}

\* A script run: the pass the interaction causes and, when it ends in
\* st.rerun(), the pass that follows with no button clicked.  When an
\* interaction is pending at st.rerun(), its pass is the one that follows:
\* the run then ends as the first pass left the session, which is the
\* outcome of a second pass cut at its first st.* call.
ScriptRun(s, w, b) ==
    UNION {IF c.ctl # "rerun" THEN {c}
           ELSE {[r EXCEPT !.op = c.op, !.graded = c.graded,
                           !.reinit = c.reinit \/ r.reinit, !.nq = c.nq + r.nq,
                           !.ev = c.ev \o @] :
                    r \in ScriptPass(c.s, w, "none")} :
             c \in ScriptPass(s, w, b)}

(***************************************************************************)
(* The state.                                                              *)
(***************************************************************************)
VARIABLES
    \* st.session_state
    stats, wrong_book, mastery, await_next, sr_queue,
    exam_active, exam_remaining, exam_correct,
    mode, cat, practice_mode, data, indices_left,
    current_idx, options_idx, options_text, is_spelling,
    \* the widgets that keep their value from run to run
    uploaded_vocab, quiz_mode, mode_choice, sel_cat, uploaded_progress,
    \* history: the question on display has been graded
    answered,
    \* history: the latest answer graded incorrect, [idx, n]: its row index and
    \* the number of questions selected since (idx = NoIdx: none is followed,
    \* and none is after a round reset or a round initialisation)
    probe,
    \* history: the numbers of submissions and of changes of the setting
    n_submits, n_changes,
    \* the feedback box on the page (lines 412-422): "exact", "near", "wrong",
    \* or "none" when the page shows none
    feedback,
    \* history: while an exam is active, the target indices the page has
    \* displayed since its start, whether one of them was selected and
    \* displayed again, and whether the target selected last is still to be
    \* displayed (fresh)
    exam_asked

vars ==
    << stats, wrong_book, mastery, await_next, sr_queue,
       exam_active, exam_remaining, exam_correct,
       mode, cat, practice_mode, data, indices_left,
       current_idx, options_idx, options_text, is_spelling,
       uploaded_vocab, quiz_mode, mode_choice, sel_cat, uploaded_progress,
       answered, probe, n_submits, n_changes, feedback, exam_asked >>

\* The session state as one record.
Session ==
    [stats |-> stats, wrong_book |-> wrong_book, mastery |-> mastery,
     await_next |-> await_next, sr_queue |-> sr_queue,
     exam_active |-> exam_active, exam_remaining |-> exam_remaining,
     exam_correct |-> exam_correct,
     mode |-> mode, cat |-> cat, practice_mode |-> practice_mode,
     data |-> data, indices_left |-> indices_left,
     current_idx |-> current_idx, options_idx |-> options_idx,
     options_text |-> options_text, is_spelling |-> is_spelling]

\* ensure_session(), lines 141-160, on a new session; "Unset" stands for a
\* key that session_state does not hold yet.
FreshSession ==
    [stats |-> ZeroStats, wrong_book |-> << >>, mastery |-> << >>,
     await_next |-> FALSE, sr_queue |-> << >>,
     exam_active |-> FALSE, exam_remaining |-> 0, exam_correct |-> 0,
     mode |-> "Unset", cat |-> "Unset", practice_mode |-> "Unset",
     data |-> << >>, indices_left |-> << >>,
     current_idx |-> NoIdx, options_idx |-> << >>,
     options_text |-> << >>, is_spelling |-> FALSE]

\* The defaults of the sidebar, lines 19-45, with no answer given.
DefaultInputs ==
    [auto |-> TRUE, exam_len |-> ExamLenMin + ExamLenStep, shuffle |-> TRUE,
     enable_fuzzy |-> TRUE, near_threshold |-> NearThresholdDefault,
     count_near |-> FALSE, choice |-> NoIdx, typed |-> << >>]

\* The widget values of a run: those kept in the state and those given, with
\* the vocabulary file that the uploader holds.
Widgets(qm, mc, sc, up, in) ==
    [uploaded_vocab |-> uploaded_vocab,
     quiz_mode |-> qm, mode_choice |-> mc, sel_cat |-> sc, uploaded |-> up,
     auto |-> in.auto, exam_len |-> in.exam_len, shuffle |-> in.shuffle,
     enable_fuzzy |-> in.enable_fuzzy, near_threshold |-> in.near_threshold,
     count_near |-> in.count_near, choice |-> in.choice, typed |-> in.typed]

NoProbe == [idx |-> NoIdx, n |-> 0]

\* The probe p after the event v of a pass: a round initialisation and a
\* round reset follow no answer, an answer graded incorrect is followed from
\* its target on, and a call of next_question counts as one selection since,
\* the probe ending with the selection after the SRDelay-th.
ProbeEvent(p, v) ==
    IF v.k \in {"reinit", "reset"} THEN NoProbe
    ELSE IF v.k = "wrong" THEN [idx |-> v.idx, n |-> 0]
    ELSE IF v.k \in {"sel", "crash"} /\ p.idx # NoIdx
    THEN IF p.n = SRDelay THEN NoProbe ELSE [idx |-> p.idx, n |-> p.n + 1]
    ELSE p

\* The probe after the first n events of ev.
RECURSIVE ProbeEvents(_, _, _)
ProbeEvents(p, ev, n) ==
    IF n = 0 THEN p ELSE ProbeEvent(ProbeEvents(p, ev, n - 1), ev[n])

\* The probe after a run c that started with the probe p.
NextProbe(p, c) == ProbeEvents(p, c.ev, Len(c.ev))

\* Whether the question on display has been graded, after the event v of a
\* pass: a question selected is not graded yet, a graded answer is the answer
\* to the question on display.
AnsweredEvent(a, v) ==
    IF v.k \in {"sel", "crash"} THEN FALSE
    ELSE IF v.k \in {"right", "wrong"} THEN TRUE
    ELSE a

\* Whether the question on display has been graded, after the first n events
\* of ev.
RECURSIVE AnsweredEvents(_, _, _)
AnsweredEvents(a, ev, n) ==
    IF n = 0 THEN a ELSE AnsweredEvent(AnsweredEvents(a, ev, n - 1), ev[n])

\* Whether the question on display has been graded, after a run c.
NextAnswered(a, c) == AnsweredEvents(a, c.ev, Len(c.ev))

NoneAsked == [asked |-> {}, repeated |-> FALSE, fresh |-> FALSE]

\* The history e after the event v of a pass: an exam start forgets the
\* targets displayed, a selection makes the target fresh, and the page
\* presents a fresh target when it displays it during an exam.
ExamEvent(e, v) ==
    IF v.k = "start" THEN NoneAsked
    ELSE IF v.k = "sel" THEN [e EXCEPT !.fresh = TRUE]
    ELSE IF v.k = "show" /\ v.exam /\ e.fresh
    THEN [asked |-> e.asked \cup {v.idx},
          repeated |-> e.repeated \/ v.idx \in e.asked,
          fresh |-> FALSE]
    ELSE e

\* The history after the first n events of ev.
RECURSIVE ExamEvents(_, _, _)
ExamEvents(e, ev, n) ==
    IF n = 0 THEN e ELSE ExamEvent(ExamEvents(e, ev, n - 1), ev[n])

\* The targets presented in the exam, after a run c that started with e.
NextExamAsked(e, c) ==
    IF ~c.s.exam_active THEN NoneAsked ELSE ExamEvents(e, c.ev, Len(c.ev))

\* The state that the outcome c of a script run leads to: the session state
\* and the histories.  Outcomes that differ only in how the pass went lead to
\* the same state.
After(c, sc) ==
    [s |-> c.s,
     sel_cat |-> sc,
     answered |-> NextAnswered(answered, c),
     probe |-> NextProbe(probe, c),
     n_submits |-> IF c.op = "submit" THEN n_submits + 1 ELSE n_submits,
     feedback |-> c.feedback,
     exam_asked |-> NextExamAsked(exam_asked, c)]

\* The value of the category selectbox after a run c with the widgets w.
\* The selectbox exists only in the normal mode and with a vocabulary file
\* (line 257).  A pass of the review mode, or one that stops at line 250,
\* does not create it: when the pass runs to its end or to st.stop(), the
\* page drops the selectbox and its value, and the selectbox shows its first
\* option when it is created again.  When the pass ends early otherwise, the
\* selectbox of the page before may be kept with its value or dropped.
SelCatAfter(c, w) ==
    IF w.mode_choice = "Normal" /\ w.uploaded_vocab # NoFile THEN {w.sel_cat}
    ELSE IF c.ctl \in {"run", "stop"} THEN {cat_names[1]}
    ELSE {w.sel_cat, cat_names[1]}

\* The states that the outcomes of a script run with the widgets w lead to.
Outcomes(runs, w) == UNION {{After(c, sc) : sc \in SelCatAfter(c, w)} : c \in runs}

\* The outcome c of a script run becomes the next state.
Commit(c) ==
    /\ stats' = c.s.stats
    /\ wrong_book' = c.s.wrong_book
    /\ mastery' = c.s.mastery
    /\ await_next' = c.s.await_next
    /\ sr_queue' = c.s.sr_queue
    /\ exam_active' = c.s.exam_active
    /\ exam_remaining' = c.s.exam_remaining
    /\ exam_correct' = c.s.exam_correct
    /\ mode' = c.s.mode
    /\ cat' = c.s.cat
    /\ practice_mode' = c.s.practice_mode
    /\ data' = c.s.data
    /\ indices_left' = c.s.indices_left
    /\ current_idx' = c.s.current_idx
    /\ options_idx' = c.s.options_idx
    /\ options_text' = c.s.options_text
    /\ is_spelling' = c.s.is_spelling
    /\ sel_cat' = c.sel_cat
    /\ answered' = c.answered
    /\ probe' = c.probe
    /\ n_submits' = c.n_submits
    /\ feedback' = c.feedback
    /\ exam_asked' = c.exam_asked

\* The first run of a session with the vocabulary uploaded.  Its pass can be
\* ended by an interaction with the sidebar before the round is initialised:
\* the session is then left as ensure_session() made it, without a mode, a
\* table or a question.
Init ==
    /\ uploaded_vocab = 1
    /\ quiz_mode = "DefToWord"
    /\ mode_choice = "Normal"
    /\ sel_cat = cat_names[1]
    /\ uploaded_progress = << >>
    /\ probe = NoProbe
    /\ n_submits = 0
    /\ n_changes = 0
    /\ \E c \in ScriptRun(FreshSession,
                          Widgets("DefToWord", "Normal", cat_names[1], << >>, DefaultInputs),
                          "none") :
          /\ stats = c.s.stats
          /\ wrong_book = c.s.wrong_book
          /\ mastery = c.s.mastery
          /\ await_next = c.s.await_next
          /\ sr_queue = c.s.sr_queue
          /\ exam_active = c.s.exam_active
          /\ exam_remaining = c.s.exam_remaining
          /\ exam_correct = c.s.exam_correct
          /\ mode = c.s.mode
          /\ cat = c.s.cat
          /\ practice_mode = c.s.practice_mode
          /\ data = c.s.data
          /\ indices_left = c.s.indices_left
          /\ current_idx = c.s.current_idx
          /\ options_idx = c.s.options_idx
          /\ options_text = c.s.options_text
          /\ is_spelling = c.s.is_spelling
          /\ answered = FALSE
          /\ feedback = c.feedback
          /\ exam_asked = NoneAsked

(***************************************************************************)
(* The interactions.  Each is one script run.  A widget that only some     *)
(* handlers read (the delay, the exam length, the shuffle and the spelling *)
(* settings, the radio and the text input) is an input of the runs that    *)
(* read it: changing it is a run of its own that no handler takes part in. *)
(* A click on a button that the page does not show at the moment is the    *)
(* click after the run that shows it.                                      *)
(***************************************************************************)
\* A run with the kept widgets as they are.
Run(in, b) ==
    /\ UNCHANGED << uploaded_vocab, quiz_mode, mode_choice, uploaded_progress >>
    /\ LET w == Widgets(quiz_mode, mode_choice, sel_cat, uploaded_progress, in)
       IN  \E c \in Outcomes(ScriptRun(Session, w, b), w) : Commit(c)

ChangeQuizMode ==
    /\ n_changes < MaxChanges
    /\ \E m \in QuizModes \ {quiz_mode} :
        /\ quiz_mode' = m
        /\ LET w == Widgets(m, mode_choice, sel_cat, uploaded_progress, DefaultInputs)
           IN  \E c \in Outcomes(ScriptRun(Session, w, "none"), w) : Commit(c)
    /\ n_changes' = n_changes + 1
    /\ UNCHANGED << uploaded_vocab, mode_choice, uploaded_progress >>

\* The category selectbox of the run is the one the page holds: sel_cat is
\* its first option once the page has dropped it.
ChangePracticeMode ==
    /\ n_changes < MaxChanges
    /\ \E p \in PracticeModes \ {mode_choice} :
        /\ mode_choice' = p
        /\ LET w == Widgets(quiz_mode, p, sel_cat, uploaded_progress, DefaultInputs)
           IN  \E c \in Outcomes(ScriptRun(Session, w, "none"), w) : Commit(c)
    /\ n_changes' = n_changes + 1
    /\ UNCHANGED << uploaded_vocab, quiz_mode, uploaded_progress >>

ChangeCategory ==
    /\ n_changes < MaxChanges
    /\ mode_choice = "Normal"
    /\ \E n \in Range(cat_names) \ {sel_cat} :
        /\ LET w == Widgets(quiz_mode, mode_choice, n, uploaded_progress, DefaultInputs)
           IN  \E c \in Outcomes(ScriptRun(Session, w, "none"), w) : Commit(c)
    /\ n_changes' = n_changes + 1
    /\ UNCHANGED << uploaded_vocab, quiz_mode, mode_choice, uploaded_progress >>

\* The vocabulary file is replaced by another one, or taken out of the
\* uploader (line 16).
ChangeVocabulary ==
    /\ n_changes < MaxChanges
    /\ \E f \in ({NoFile} \cup (1..Len(VocabFiles))) \ {uploaded_vocab} :
        /\ uploaded_vocab' = f
        /\ LET w == [Widgets(quiz_mode, mode_choice, sel_cat, uploaded_progress,
                             DefaultInputs) EXCEPT !.uploaded_vocab = f]
           IN  \E c \in Outcomes(ScriptRun(Session, w, "none"), w) : Commit(c)
    /\ n_changes' = n_changes + 1
    /\ UNCHANGED << quiz_mode, mode_choice, uploaded_progress >>

ClickStartExam ==
    /\ n_changes < MaxChanges
    /\ \E len \in ExamLens : Run([DefaultInputs EXCEPT !.exam_len = len], "exam")
    /\ n_changes' = n_changes + 1

ClickNext ==
    /\ \E sh \in BOOLEAN : Run([DefaultInputs EXCEPT !.shuffle = sh], "next")
    /\ UNCHANGED n_changes

\* The answers the user can give to the question on display.
AnswerInputs ==
    IF is_spelling
    THEN {[DefaultInputs EXCEPT !.auto = a, !.typed = ty, !.enable_fuzzy = FALSE] :
            a \in BOOLEAN, ty \in TypedInputs}
         \cup
         {[DefaultInputs EXCEPT !.auto = a, !.typed = ty, !.enable_fuzzy = TRUE,
                                !.near_threshold = th, !.count_near = cn] :
            a \in BOOLEAN, ty \in TypedInputs, th \in NearThresholds, cn \in BOOLEAN}
    ELSE {[DefaultInputs EXCEPT !.auto = a, !.choice = ch] :
            a \in BOOLEAN, ch \in 0..(Len(options_text) - 1)}

ClickSubmit ==
    /\ n_submits < MaxSubmits
    /\ \E in \in AnswerInputs : Run(in, "submit")
    /\ UNCHANGED n_changes

ClickSkip ==
    /\ \E a \in BOOLEAN : Run([DefaultInputs EXCEPT !.auto = a], "skip")
    /\ UNCHANGED n_changes

ClickReset ==
    /\ Run(DefaultInputs, "reset")
    /\ UNCHANGED n_changes

ClickClearWrongBook ==
    /\ n_changes < MaxChanges
    /\ Run(DefaultInputs, "clear")
    /\ n_changes' = n_changes + 1

ClickExportJson ==
    /\ Run(DefaultInputs, "export_json")
    /\ UNCHANGED n_changes

ClickExportCsv ==
    /\ Run(DefaultInputs, "export_csv")
    /\ UNCHANGED n_changes

\* A file is put into the progress uploader.
UploadProgress ==
    /\ n_changes < MaxChanges
    /\ \E i \in 1..Len(ProgressFiles) :
        /\ uploaded_progress # <<ProgressFiles[i]>>
        /\ uploaded_progress' = <<ProgressFiles[i]>>
        /\ LET w == Widgets(quiz_mode, mode_choice, sel_cat, <<ProgressFiles[i]>>,
                            DefaultInputs)
           IN  \E c \in Outcomes(ScriptRun(Session, w, "none"), w) : Commit(c)
    /\ n_changes' = n_changes + 1
    /\ UNCHANGED << uploaded_vocab, quiz_mode, mode_choice >>

\* The file is taken out of the uploader.
RemoveUpload ==
    /\ uploaded_progress # << >>
    /\ uploaded_progress' = << >>
    /\ LET w == Widgets(quiz_mode, mode_choice, sel_cat, << >>, DefaultInputs)
       IN  \E c \in Outcomes(ScriptRun(Session, w, "none"), w) : Commit(c)
    /\ UNCHANGED << uploaded_vocab, quiz_mode, mode_choice, n_changes >>

\* Any other widget change: a run with no button clicked.
Rerun ==
    /\ Run(DefaultInputs, "none")
    /\ UNCHANGED n_changes

Next ==
    \/ ChangeQuizMode
    \/ ChangePracticeMode
    \/ ChangeCategory
    \/ ChangeVocabulary
    \/ ClickStartExam
    \/ ClickNext
    \/ ClickSubmit
    \/ ClickSkip
    \/ ClickReset
    \/ ClickClearWrongBook
    \/ ClickExportJson
    \/ ClickExportCsv
    \/ UploadProgress
    \/ RemoveUpload
    \/ Rerun

Spec == Init /\ [][Next]_vars

(***************************************************************************)
(* The claims.                                                             *)
(***************************************************************************)
\* The widget values of a submission with the answer `in`.
SubmitWidgets(in) ==
    Widgets(quiz_mode, mode_choice, sel_cat, uploaded_progress, in)

\* The Submit handler accepts the answer `in` and grades it: the page shows
\* the Submit button, the answer enables it and the target row exists.
Gradable(in) ==
    /\ ~await_next
    /\ SubmitEnabled(Session, SubmitWidgets(in))
    /\ SubmitEffect(Session, SubmitWidgets(in)).ok

\* The mastery record of `word`, {0, 0, 0} when the map has none.
MasteryOrZero(m, word) ==
    IF word \in MasteryWords(m) THEN MasteryRec(m, word)
    ELSE [word |-> word, seen |-> 0, correct |-> 0, wrong |-> 0]

HasPair(wb, word, definition) ==
    \E i \in 1..Len(wb) : wb[i].word = word /\ wb[i].definition = definition

\* The row of the question on display.
Target == data[current_idx + 1]

\* C2: in every reachable state of the normal practice mode, a submission that
\* is graded incorrect adds 1 to stats.total, leaves stats.correct and stats.xp
\* alone, sets stats.streak to 0, adds 1 to seen and to wrong of the target
\* word's mastery record (created from {0, 0, 0} when absent) and leaves its
\* correct alone, leaves the wrong book holding the target's (word,
\* definition), and appends exactly the item {target index, due 3} to the SR
\* queue, all of it before any question is selected.
C2_IncorrectSubmission ==
    \A in \in AnswerInputs :
        LET e == SubmitEffect(Session, SubmitWidgets(in))
            old == MasteryOrZero(mastery, Target.word)
            new == MasteryOrZero(e.state.mastery, Target.word)
        IN  (mode_choice = "Normal" /\ Gradable(in) /\ ~e.is_correct) =>
              /\ e.state.stats.total = stats.total + 1
              /\ e.state.stats.correct = stats.correct
              /\ e.state.stats.xp = stats.xp
              /\ e.state.stats.streak = 0
              /\ Target.word \in MasteryWords(e.state.mastery)
              /\ new.seen = old.seen + 1
              /\ new.wrong = old.wrong + 1
              /\ new.correct = old.correct
              /\ HasPair(e.state.wrong_book, Target.word, Target.definition)
              /\ e.state.sr_queue =
                     Append(sr_queue, [idx |-> current_idx, due |-> SRDelay])

\* A wrong answer has just been graded in the normal mode, with no automatic
\* advance: the page waits for Next, the streak is 0, and the SR queue ends
\* with the item of the question on display, not ticked yet.
C2_Witness ==
    /\ mode_choice = "Normal"
    /\ answered /\ await_next
    /\ stats.total >= 1 /\ stats.streak = 0
    /\ sr_queue # << >>
    /\ sr_queue[Len(sr_queue)] = [idx |-> current_idx, due |-> SRDelay]
    /\ HasPair(wrong_book, Target.word, Target.definition)
    /\ MasteryOrZero(mastery, Target.word).wrong >= 1

\* C6: every mastery record has seen = correct + wrong.
C6_SeenIsCorrectPlusWrong ==
    \A i \in 1..Len(mastery) :
        mastery[i].seen = mastery[i].correct + mastery[i].wrong

\* With no progress file ever uploaded, a word has been answered twice, once
\* correctly and once not.
C6_Witness ==
    /\ n_changes = 0
    /\ \E i \in 1..Len(mastery) :
          mastery[i].seen = 2 /\ mastery[i].correct = 1 /\ mastery[i].wrong = 1

\* C7: no two entries of the wrong book have the same (word, definition), and
\* adding a pair the book holds, under its example or another, changes nothing.
C7_NoDuplicatePair ==
    /\ \A i, j \in 1..Len(wrong_book) :
          (wrong_book[i].word = wrong_book[j].word
             /\ wrong_book[i].definition = wrong_book[j].definition) => i = j
    /\ \A i \in 1..Len(wrong_book) : \A ex \in {wrong_book[i].example, "x2"} :
          add_to_wrong_book(wrong_book, wrong_book[i].word,
                            wrong_book[i].definition, ex) = wrong_book

\* With no progress file ever uploaded, the same word has been answered wrong
\* twice and the wrong book holds it once.
C7_Witness ==
    /\ n_changes = 0
    /\ Len(wrong_book) = 1
    /\ \E i \in 1..Len(mastery) :
          mastery[i].wrong = 2 /\ mastery[i].word = wrong_book[1].word

\* C9: exporting the ledger of any reachable state and importing the export
\* into an emptied ledger gives back the same mastery map and the same wrong
\* book, in the same order.
C9_RoundTrip ==
    ImportJson(ExportJson(mastery, wrong_book), << >>, << >>)
        = [mastery |-> mastery, wrong_book |-> wrong_book]

\* A ledger built by the quiz alone: two words in the mastery map, in the
\* order w2, w1, and an entry in the wrong book.
C9_Witness ==
    /\ n_changes = 0
    /\ Len(mastery) = 2 /\ mastery[1].word = "w2" /\ mastery[2].word = "w1"
    /\ Len(wrong_book) >= 1

\* C10: a graded submission changes the wrong book by the practice mode.  In
\* the review mode a correct answer removes exactly the entries with the
\* target's (word, definition), keeping the others in order, and an incorrect
\* answer leaves the book alone; in the normal mode an incorrect answer appends
\* the target's entry unless the book holds its pair, and a correct answer
\* leaves the book alone.
C10_WrongBookByPracticeMode ==
    \A in \in AnswerInputs :
        LET e == SubmitEffect(Session, SubmitWidgets(in))
            NotTarget(r) == ~(r.word = Target.word /\ r.definition = Target.definition)
        IN  Gradable(in) =>
              e.state.wrong_book =
                  IF mode_choice = "Review"
                  THEN IF e.is_correct THEN SelectSeq(wrong_book, NotTarget)
                       ELSE wrong_book
                  ELSE IF e.is_correct \/ HasPair(wrong_book, Target.word, Target.definition)
                       THEN wrong_book
                       ELSE Append(wrong_book,
                                   Row(Target.word, Target.definition, Target.example))

\* In the review mode, the one entry of the wrong book has been answered
\* correctly and is gone from the book.
C10_Witness ==
    /\ practice_mode = "Review"
    /\ uploaded_progress = << >>
    /\ Len(data) = 1
    /\ stats.correct = 1
    /\ wrong_book = << >>

\* C3: the SR queue is ticked exactly once per question selection, and the
\* item of an answer graded incorrect comes back at the third selection: as
\* long as the round is neither reset nor initialised again, after one or two
\* selections the item is still queued, 2 or 1 selections from its return,
\* and the third selection asks its index.
C3_ReturnAtThirdSelection ==
    probe.idx # NoIdx =>
        /\ probe.n \in 0..SRDelay
        /\ probe.n < SRDelay =>
              \E k \in 1..Len(sr_queue) :
                  sr_queue[k] = [idx |-> probe.idx, due |-> SRDelay - probe.n]
        /\ probe.n = SRDelay => current_idx = probe.idx

\* The third selection after a wrong answer has just asked its index again,
\* while the pool held the other index as its next draw.
C3_Witness ==
    /\ probe.idx # NoIdx
    /\ probe.n = SRDelay
    /\ current_idx = probe.idx
    /\ indices_left # << >>
    /\ indices_left[Len(indices_left)] # current_idx

\* The outcomes of a click on Submit with the answer `in`, and of a click on
\* Next, in the current state.
SubmitRuns(in) == ScriptRun(Session, SubmitWidgets(in), "submit")

NextRuns == ScriptRun(Session, SubmitWidgets(DefaultInputs), "next")

\* The run c has taken 1 from exam_remaining and has left the exam active
\* exactly when exam_remaining is above 0.
Decremented(c) ==
    /\ c.s.exam_remaining = exam_remaining - 1
    /\ c.s.exam_active = (c.s.exam_remaining > 0)

\* C1: while an exam is active, every advance after a graded question takes 1
\* from exam_remaining, and the exam stays active exactly as long as
\* exam_remaining is above 0: the advance by the auto-advance delay, in the
\* run that grades the answer, and the advance by the Next button for a
\* graded question.
C1_AdvanceDecrements ==
    exam_active =>
      /\ \A in \in AnswerInputs : \A c \in SubmitRuns(in) :
            (in.auto /\ c.graded # "none") => Decremented(c)
      /\ \A c \in NextRuns :
            (answered /\ c.op = "next") => Decremented(c)

\* The outcomes of lines 246-287 in the current state for every setting of
\* the question mode, the practice mode and the category.
SwitchRuns ==
    UNION {StageInit(StageData(StageVocab(NewCtx(Session),
                                          Widgets(m, p, n, uploaded_progress, DefaultInputs)),
                               Widgets(m, p, n, uploaded_progress, DefaultInputs)),
                     Widgets(m, p, n, uploaded_progress, DefaultInputs)) :
             m \in QuizModes, p \in PracticeModes, n \in Range(cat_names)}

\* C5: the round initialisation that follows a switch of the question mode,
\* the category or the practice mode leaves the stats at zero, the pool
\* holding every index of the new table but the one asked, and the SR queue
\* empty.
C5_SwitchInvalidatesRound ==
    \A c \in SwitchRuns :
        c.reinit =>
          /\ c.s.stats = ZeroStats
          /\ Range(c.s.indices_left) = (0..(Len(c.s.data) - 1)) \ {c.s.current_idx}
          /\ c.s.sr_queue = << >>

\* C8: putting a progress file with a malformed part into the uploader leaves
\* the mastery map and the wrong book as they were.
C8_MalformedLeavesLedger ==
    [][(uploaded_progress' # uploaded_progress
          /\ uploaded_progress' = << FileBadWrongBook >>) =>
          (mastery' = mastery /\ wrong_book' = wrong_book)]_vars

\* C11: in spelling mode with fuzzy matching enabled, a submission with an
\* exact verdict is graded correct, one with a wrong verdict is graded
\* incorrect, and one with a near verdict is graded correct exactly when near
\* counts as correct; a near answer that does not count is graded incorrect
\* with the feedback "near", sets the streak to 0 and, in the normal practice
\* mode, leaves the target's pair in the wrong book and appends the item
\* {target index, due 3} to the SR queue.
C11_NearVerdictGrading ==
    \A in \in AnswerInputs :
        LET e == SubmitEffect(Session, SubmitWidgets(in))
            verdict == spelling_verdict(in.typed, Spell(Target.word), in.near_threshold)
        IN  (is_spelling /\ in.enable_fuzzy /\ Gradable(in)) =>
              /\ verdict = "exact" => e.is_correct
              /\ verdict = "wrong" => ~e.is_correct
              /\ verdict = "near" => (e.is_correct <=> in.count_near)
              /\ (verdict = "near" /\ ~in.count_near) =>
                    /\ ~e.is_correct
                    /\ e.feedback_mode = "near"
                    /\ e.state.stats.streak = 0
                    /\ mode_choice = "Normal" =>
                          /\ HasPair(e.state.wrong_book, Target.word, Target.definition)
                          /\ e.state.sr_queue =
                                 Append(sr_queue, [idx |-> current_idx, due |-> SRDelay])

\* A near answer has just been graded incorrect in the normal mode: the page
\* shows the "Almost!" box, the streak is 0, and the target is in the wrong
\* book and at the end of the SR queue with due 3.
C11_Witness ==
    /\ is_spelling /\ mode_choice = "Normal"
    /\ feedback = "near"
    /\ await_next /\ answered
    /\ stats.streak = 0 /\ stats.correct = 0 /\ stats.total = 1
    /\ HasPair(wrong_book, Target.word, Target.definition)
    /\ sr_queue = << [idx |-> current_idx, due |-> SRDelay] >>

\* The outcomes of the button stage for a click on Skip in the current state.
SkipRuns ==
    UNION {StageButtons(NewCtx(Session),
                        SubmitWidgets([DefaultInputs EXCEPT !.auto = a]), "skip") :
             a \in BOOLEAN}

\* C13: the Skip handler runs only while no advance is awaited; when it runs
\* it sets the streak to 0, leaves stats.total, stats.correct, stats.xp, the
\* mastery map, the wrong book and the exam's correct count as they were, and
\* adds no item to the SR queue (the queue is the old one, or the old one
\* after the tick of the next selection).
C13_SkipFrame ==
    \A c \in SkipRuns :
        c.op = "skip" =>
          /\ ~await_next
          /\ c.s.stats.streak = 0
          /\ c.s.stats.total = stats.total
          /\ c.s.stats.correct = stats.correct
          /\ c.s.stats.xp = stats.xp
          /\ c.s.mastery = mastery
          /\ c.s.wrong_book = wrong_book
          /\ c.s.exam_correct = exam_correct
          /\ c.s.sr_queue \in {sr_queue, sr_tick_and_pick(sr_queue).queue}

\* A question was answered correctly and the next one was skipped with no
\* automatic advance: the streak is back to 0, the counts are those of the one
\* answer, and the page waits for Next with the question not graded.
C13_Witness ==
    /\ await_next /\ ~answered
    /\ stats = [xp |-> 1, correct |-> 1, total |-> 1, streak |-> 0]
    /\ Len(mastery) = 1 /\ mastery[1].correct = 1
    /\ sr_queue = << >>

\* The outcomes of the pass for a click on Reset round in the current state,
\* up to the end of the button stage.
ResetRuns ==
    LET w == SubmitWidgets(DefaultInputs)
    IN  UNION {StageButtons(c, w, "reset") :
                 c \in StageInit(StageData(StageVocab(StageClear(NewCtx(Session), "reset"),
                                                      w), w), w)}

\* C14: in every state, the Reset round handler draws a question and leaves
\* the session awaiting its answer, with the stats at zero, the SR queue
\* empty, and the pool holding every index of the active table but the drawn
\* one exactly once; the mastery map and the wrong book are as they were.
C14_ResetRound ==
    \A c \in ResetRuns :
        c.op = "reset" =>
          /\ c.ctl = "rerun"
          /\ ~c.s.await_next
          /\ c.s.stats = ZeroStats
          /\ c.s.sr_queue = << >>
          /\ c.s.current_idx \in 0..(Len(c.s.data) - 1)
          /\ Len(c.s.indices_left) = Len(c.s.data) - 1
          /\ Range(c.s.indices_left) = (0..(Len(c.s.data) - 1)) \ {c.s.current_idx}
          /\ c.s.mastery = mastery
          /\ c.s.wrong_book = wrong_book

\* With the setting never changed, an answer was graded incorrect and the
\* round was reset afterwards: the stats are zero and the SR queue is empty,
\* while the mastery map and the wrong book keep the answer.
C14_Witness ==
    /\ n_changes = 0
    /\ stats = ZeroStats
    /\ sr_queue = << >>
    /\ ~await_next
    /\ Len(wrong_book) = 1
    /\ Len(mastery) = 1 /\ mastery[1].wrong = 1
    /\ Len(indices_left) = Len(data) - 1

\* C16: a submission is evaluated only while no advance is awaited and the
\* question on display has not been graded, and Next is accepted only while
\* an advance is awaited; an evaluated submission adds 1 to stats.total and
\* either selects the next question in the same run or leaves the session
\* awaiting the advance, and a graded question on display always awaits the
\* advance: so no second submission is evaluated for the same question.  (A
\* run that initialises the round again first is left out: it asks and
\* grades another question.)
C16_OneSubmissionPerQuestion ==
    /\ \A in \in AnswerInputs : \A c \in SubmitRuns(in) :
          (c.op = "submit" /\ ~c.reinit) =>
            /\ ~await_next /\ ~answered
            /\ c.s.stats.total = stats.total + 1
            /\ c.nq = 0 => c.s.await_next
    /\ \A c \in NextRuns : c.op = "next" => await_next
    /\ answered => await_next

\* The sequence s without its last element, and its last element.
Front(s) == SubSeq(s, 1, Len(s) - 1)

Last(s) == s[Len(s)]

\* The pool holds no index twice and only row indices of the active table.
PoolWellFormed ==
    /\ \A i, j \in 1..Len(indices_left) : indices_left[i] = indices_left[j] => i = j
    /\ \A i \in 1..Len(indices_left) : indices_left[i] \in 0..(Len(data) - 1)

\* C17: in every reachable state the pool has no duplicate and holds only
\* indices of the active table; and a question selection in that state
\* leaves the pool alone when an SR item is due, takes the last index of a
\* pool that is not empty as the target, and refills the pool only when it is
\* empty, with all the indices of the table, the drawn target taken out: so
\* the draws between two refills visit every index exactly once.
C17_PoolWithoutReplacement ==
    /\ PoolWellFormed
    /\ \A sh \in BOOLEAN : \A r \in next_question(Session, sh) :
          r.ok =>
            IF sr_tick_and_pick(sr_queue).chosen # NoIdx
            THEN r.state.indices_left = indices_left
            ELSE IF indices_left # << >>
            THEN /\ r.state.indices_left = Front(indices_left)
                 /\ r.state.current_idx = Last(indices_left)
            ELSE /\ Len(r.state.indices_left) = Len(data) - 1
                 /\ Range(r.state.indices_left) \cup {r.state.current_idx}
                       = 0..(Len(data) - 1)
                 /\ r.state.current_idx \notin Range(r.state.indices_left)

\* With the setting never changed and the round never reset, two questions
\* of the two-entry table were answered correctly and a third one is on
\* display: the pool was drawn empty and refilled, and holds the other index.
C17_Witness ==
    /\ n_changes = 0
    /\ Len(data) = 2
    /\ stats = [xp |-> 2, correct |-> 2, total |-> 2, streak |-> 2]
    /\ Len(mastery) = 2
    /\ ~answered /\ ~await_next
    /\ sr_queue = << >>
    /\ indices_left = << 1 - current_idx >>

\* C18: from the start of an exam until the exam becomes inactive, no target
\* index is presented as a question more than once.
C18_ExamNeverRepeats == ~exam_asked.repeated

\* C19: in every reachable state the target index of the current question,
\* once a question has been selected, and the index of every item of the SR
\* queue are row indices of the active table.
C19_IndicesInTable ==
    /\ current_idx # NoIdx => current_idx \in 0..(Len(data) - 1)
    /\ \A i \in 1..Len(sr_queue) : sr_queue[i].idx \in 0..(Len(data) - 1)

\* The progress file in the uploader, if there is one, has been applied:
\* the mastery map and the wrong book are what its import makes them.
FileApplied ==
    \/ uploaded_progress = << >>
    \/ ImportJson(uploaded_progress[1], mastery, wrong_book)
         = [mastery |-> mastery, wrong_book |-> wrong_book]

\* C21: a progress file is applied once, by the run that puts it into the
\* uploader.  In every reachable state in which the file of the uploader, if
\* any, has been applied, the run of a graded submission leaves the mastery
\* map and the wrong book as the submission made them.  (A run that
\* initialises the round again first is left out: it grades another
\* question.)
C21_ImportAppliedOnce ==
    FileApplied =>
      \A in \in AnswerInputs : \A c \in SubmitRuns(in) :
          (c.graded # "none" /\ ~c.reinit) =>
            /\ c.s.mastery = SubmitEffect(Session, SubmitWidgets(in)).state.mastery
            /\ c.s.wrong_book = SubmitEffect(Session, SubmitWidgets(in)).state.wrong_book

(***************************************************************************)
(* The SR queue on its own: any sequence of schedule and tick calls on a   *)
(* queue of at most MaxQueue items, from the empty queue of a new session. *)
(***************************************************************************)
MaxQueue == 3

SRSchedule ==
    /\ Len(sr_queue) < MaxQueue
    /\ \E idx \in 0..(Len(data) - 1), delay \in 1..SRDelay :
          sr_queue' = schedule_spaced_repetition(sr_queue, idx, delay)
    /\ UNCHANGED << stats, wrong_book, mastery, await_next,
                    exam_active, exam_remaining, exam_correct,
                    mode, cat, practice_mode, data, indices_left,
                    current_idx, options_idx, options_text, is_spelling,
                    uploaded_vocab, quiz_mode, mode_choice, sel_cat, uploaded_progress,
                    answered, probe, n_submits, n_changes, feedback,
                    exam_asked >>

SRTick ==
    /\ sr_queue' = sr_tick_and_pick(sr_queue).queue
    /\ UNCHANGED << stats, wrong_book, mastery, await_next,
                    exam_active, exam_remaining, exam_correct,
                    mode, cat, practice_mode, data, indices_left,
                    current_idx, options_idx, options_text, is_spelling,
                    uploaded_vocab, quiz_mode, mode_choice, sel_cat, uploaded_progress,
                    answered, probe, n_submits, n_changes, feedback,
                    exam_asked >>

NextSR == SRSchedule \/ SRTick

SpecSR == Init /\ [][NextSR]_vars

\* The sequence s without its element at position n.
WithoutAt(s, n) == SubSeq(s, 1, n - 1) \o SubSeq(s, n + 1, Len(s))

\* C4: a tick takes 1 from every due count above 0; when items are then due,
\* it returns the index of the earliest-inserted of them and removes that one
\* item, the others staying queued in order; when none is due, it returns none
\* and keeps every item.
C4_TickRemovesOne ==
    LET r == sr_tick_and_pick(sr_queue)
        ticked == [i \in 1..Len(sr_queue) |->
                      [idx |-> sr_queue[i].idx,
                       due |-> IF sr_queue[i].due > 0 THEN sr_queue[i].due - 1 ELSE 0]]
        due == {i \in 1..Len(ticked) : ticked[i].due = 0}
        first == CHOOSE i \in due : \A j \in due : i <= j
    IN  IF due = {}
        THEN r.chosen = NoIdx /\ r.queue = ticked
        ELSE r.chosen = ticked[first].idx /\ r.queue = WithoutAt(ticked, first)

(***************************************************************************)
(* The option selector on its own: pick_options on pools of 1 to MaxPool   *)
(* entries with every correct index and every k from 1 to MaxK, as lines   *)
(* 218-220 and 225-227 call it, the joint shuffle of lines 236-240 on its  *)
(* result, and the question that lines 212-243 build in every question     *)
(* mode.                                                                   *)
(***************************************************************************)
MaxPool == 4

MaxK == 5

\* A table of n entries.
PoolTable(n) ==
    [i \in 1..n |->
        Row(<<"p1", "p2", "p3", "p4", "p5", "p6">>[i],
            <<"q1", "q2", "q3", "q4", "q5", "q6">>[i], "")]

\* Lines 214-227 on a table of n entries, for the target c, with k options:
\* the options are words in the mode m = "DefToWord" (lines 218-220) and
\* definitions in the mode "WordToDef" (lines 225-227).
PickOptions(n, c, k, m) ==
    /\ data' = PoolTable(n)
    /\ mode' = m
    /\ current_idx' = c
    /\ is_spelling' = FALSE
    /\ \E o \in pick_options(n, c, k) :
          /\ options_idx' = o
          /\ options_text' = [j \in 1..Len(o) |->
                                 IF m = "DefToWord" THEN PoolTable(n)[o[j] + 1].word
                                 ELSE PoolTable(n)[o[j] + 1].definition]
    /\ UNCHANGED << stats, wrong_book, mastery, await_next, sr_queue,
                    exam_active, exam_remaining, exam_correct,
                    cat, practice_mode, indices_left,
                    uploaded_vocab, quiz_mode, mode_choice, sel_cat, uploaded_progress,
                    answered, probe, n_submits, n_changes, feedback,
                    exam_asked >>

PickStep ==
    \E n \in 1..MaxPool, k \in 1..MaxK, m \in {"DefToWord", "WordToDef"} :
        \E c \in 0..(n - 1) : PickOptions(n, c, k, m)

\* Lines 212-243: the question that next_question builds for the target c on
\* a table of n entries in the question mode m, shuffled or not.
AskQuestion ==
    \E n \in 1..MaxPool, m \in QuizModes, sh \in BOOLEAN : \E c \in 0..(n - 1) :
        \E r \in BuildQuestion([Session EXCEPT !.data = PoolTable(n), !.mode = m], c, sh) :
            /\ r.ok
            /\ data' = r.state.data
            /\ mode' = r.state.mode
            /\ current_idx' = r.state.current_idx
            /\ is_spelling' = r.state.is_spelling
            /\ options_idx' = r.state.options_idx
            /\ options_text' = r.state.options_text
            /\ await_next' = r.state.await_next
            /\ UNCHANGED << stats, wrong_book, mastery, sr_queue,
                            exam_active, exam_remaining, exam_correct,
                            cat, practice_mode, indices_left,
                            uploaded_vocab, quiz_mode, mode_choice, sel_cat,
                            uploaded_progress,
                            answered, probe, n_submits, n_changes, feedback,
                            exam_asked >>

\* Lines 236-240 on the options on display.
ShuffleStep ==
    /\ \E r \in JointShuffle(options_idx, options_text) :
          /\ options_idx' = r.options_idx
          /\ options_text' = r.options_text
    /\ UNCHANGED << stats, wrong_book, mastery, await_next, sr_queue,
                    exam_active, exam_remaining, exam_correct,
                    mode, cat, practice_mode, data, indices_left,
                    current_idx, is_spelling,
                    uploaded_vocab, quiz_mode, mode_choice, sel_cat, uploaded_progress,
                    answered, probe, n_submits, n_changes, feedback,
                    exam_asked >>

NextPick == PickStep \/ ShuffleStep \/ AskQuestion

SpecPick == Init /\ [][NextPick]_vars

\* The list o holds `len` pairwise distinct indices of [0, n), c exactly once.
PickResult(o, n, c, len) ==
    /\ Len(o) = len
    /\ \A i, j \in 1..Len(o) : o[i] = o[j] => i = j
    /\ \A i \in 1..Len(o) : o[i] \in 0..(n - 1)
    /\ Cardinality({i \in 1..Len(o) : o[i] = c}) = 1

\* The text of the option for the entry at index i in the question mode of
\* the round: its word (line 219) or its definition (line 226).
OptionText(i) ==
    IF mode = "DefToWord" THEN data[i + 1].word ELSE data[i + 1].definition

\* C12: for the pool size and the target of every state with a question
\* selected and for every k, pick_options(n, c, k) returns min(k, n) pairwise
\* distinct indices of [0, n) with c among them exactly once (c alone when
\* n <= 1); and every multiple-choice question, of either question mode,
\* after the pick as after the joint shuffle, has exactly one option position
\* that holds the target index, and every option text is the text of the
\* entry at the index in the same position (its word in the mode
\* definition-to-word, its definition in the mode word-to-definition).
C12_PickContract ==
    current_idx # NoIdx =>
      /\ \A k \in 1..MaxK : \A o \in pick_options(Len(data), current_idx, k) :
            PickResult(o, Len(data), current_idx,
                       IF Len(data) <= 1 THEN 1 ELSE Min(k, Len(data)))
      /\ ~is_spelling =>
            /\ Cardinality({i \in 1..Len(options_idx) :
                               options_idx[i] = current_idx}) = 1
            /\ Len(options_text) = Len(options_idx)
            /\ \A i \in 1..Len(options_idx) :
                  options_text[i] = OptionText(options_idx[i])

\* A word-to-definition question: three of four entries are picked for the
\* target 3, which is the second option; the texts are the definitions of the
\* picked entries.
C12_Witness ==
    /\ mode = "WordToDef"
    /\ ~is_spelling
    /\ Len(data) = 4
    /\ current_idx = 3
    /\ Len(options_idx) = 3
    /\ options_idx[2] = 3
    /\ options_idx[1] = 0
    /\ options_text = << "q1", "q4", data[options_idx[3] + 1].definition >>

(***************************************************************************)
(* The mastery ledger on its own: any sequence of update_mastery calls on  *)
(* the words below, each seen at most MaxSeen times, and the CSV export of *)
(* the ledger.                                                             *)
(***************************************************************************)
MaxSeen == 3

LedgerWords == {"w1", "w2", "w3"}

LedgerRecord ==
    /\ \E word \in LedgerWords, correct \in BOOLEAN :
          /\ MasteryOrZero(mastery, word).seen < MaxSeen
          /\ mastery' = update_mastery(mastery, word, correct)
    /\ UNCHANGED << stats, wrong_book, await_next, sr_queue,
                    exam_active, exam_remaining, exam_correct,
                    mode, cat, practice_mode, data, indices_left,
                    current_idx, options_idx, options_text, is_spelling,
                    uploaded_vocab, quiz_mode, mode_choice, sel_cat, uploaded_progress,
                    answered, probe, n_submits, n_changes, feedback,
                    exam_asked >>

\* The export displays a download and leaves the state alone.
LedgerExportCsv ==
    /\ ExportCsv(mastery).ok
    /\ UNCHANGED vars

NextLedger == LedgerRecord \/ LedgerExportCsv

SpecLedger == Init /\ [][NextLedger]_vars

\* The number a text of digits stands for.
RECURSIVE DigitsValue(_)
DigitsValue(d) ==
    IF Len(d) = 1 THEN d[1]
    ELSE 10 * DigitsValue(SubSeq(d, 1, Len(d) - 1)) + d[Len(d)]

\* C15: the CSV export of a mastery map that is not empty has exactly one row
\* per mastery record, and its rows are in the order of numerically
\* descending accuracy percent and, for equal accuracy, of descending seen
\* count.
C15_CsvOrder ==
    mastery # << >> =>
        LET rows == ExportCsv(mastery).rows
        IN  /\ Len(rows) = Len(mastery)
            /\ \A i \in 1..Len(mastery) :
                  Cardinality({k \in 1..Len(rows) : rows[k].word = mastery[i].word}) = 1
            /\ \A i, j \in 1..Len(rows) :
                  i < j =>
                    \/ DigitsValue(rows[i].accuracy) > DigitsValue(rows[j].accuracy)
                    \/ /\ DigitsValue(rows[i].accuracy) = DigitsValue(rows[j].accuracy)
                       /\ rows[i].seen >= rows[j].seen

(***************************************************************************)
(* A review round: a session that has loaded the progress file             *)
(* FileSnapshot, taken it out of the uploader and switched to the          *)
(* wrong-book mode, followed by clicks on the buttons of the quiz page.    *)
(***************************************************************************)
\* The session states after the four runs, each with its pass run to the end
\* of the script: the first run, the upload, the removal of the file, the
\* switch of the practice mode.
ReviewSessions ==
    LET Go(s, mc, up) ==
            {c.s : c \in {r \in ScriptRun(s, Widgets("DefToWord", mc, cat_names[1], up,
                                                     DefaultInputs), "none") :
                             r.ctl = "run"}}
        s1 == Go(FreshSession, "Normal", << >>)
        s2 == UNION {Go(s, "Normal", << FileSnapshot >>) : s \in s1}
        s3 == UNION {Go(s, "Normal", << >>) : s \in s2}
    IN  UNION {Go(s, "Review", << >>) : s \in s3}

InitReview ==
    /\ uploaded_vocab = 1
    /\ quiz_mode = "DefToWord"
    /\ mode_choice = "Review"
    /\ sel_cat = cat_names[1]
    /\ uploaded_progress = << >>
    /\ probe = NoProbe
    /\ n_submits = 0
    /\ n_changes = 0
    /\ answered = FALSE
    /\ feedback = "none"
    /\ exam_asked = NoneAsked
    /\ \E s \in ReviewSessions :
          /\ stats = s.stats
          /\ wrong_book = s.wrong_book
          /\ mastery = s.mastery
          /\ await_next = s.await_next
          /\ sr_queue = s.sr_queue
          /\ exam_active = s.exam_active
          /\ exam_remaining = s.exam_remaining
          /\ exam_correct = s.exam_correct
          /\ mode = s.mode
          /\ cat = s.cat
          /\ practice_mode = s.practice_mode
          /\ data = s.data
          /\ indices_left = s.indices_left
          /\ current_idx = s.current_idx
          /\ options_idx = s.options_idx
          /\ options_text = s.options_text
          /\ is_spelling = s.is_spelling

NextReview == ClickNext \/ ClickSubmit \/ ClickSkip \/ ClickReset

SpecReview == InitReview /\ [][NextReview]_vars

\* C20: in the wrong-book mode, a question on display that has not been
\* graded targets an entry whose (word, definition) is in the wrong book: an
\* entry that a correct answer has removed is not asked again in the round.
C20_ReviewAsksWrongBook ==
    (practice_mode = "Review" /\ ~answered /\ wrong_book # << >>
       /\ current_idx \in 0..(Len(data) - 1)) =>
        HasPair(wrong_book, Target.word, Target.definition)

====
